---- MODULE Spec2Model ----
(***************************************************************************)
(* A model of go-tcheck: CheckItem (item.go), CheckManager and the quit    *)
(* handling of UIRenderer (render.go).                                     *)
(*                                                                         *)
(* Every goroutine is a process of the model; a step is one critical       *)
(* section (a Lock ... Unlock pair), one channel operation or one call of  *)
(* a callback.  Local variables of a goroutine that no other goroutine can *)
(* see are folded into the step that first publishes them.                 *)
(*                                                                         *)
(* Specifications:                                                         *)
(*   Spec        the manager: AddCheck, RunAllChecks (launchers, workers), *)
(*               check functions that return                               *)
(*   SpecNotify  Spec and the periodic goroutines of RunAllChecks          *)
(*   FairSpec    Spec under the fairness of the Go scheduler               *)
(*   SpecReport  one item, its Runs and the calls of its reporter          *)
(*   SpecFault   the launchers and workers, check functions that may panic *)
(*   SpecUI      UIRenderer.Run, its event loop, Draw and Stop             *)
(*   SpecProgress  Spec and a caller of CalculateOverallProgress           *)
(*   SpecSnapshot  Spec and a caller that keeps and writes to the slices   *)
(*                 GetItems returns                                        *)
(*   SpecApp     the example program: the manager, UIRenderer.Run and the  *)
(*               quit keys                                                 *)
(*   SpecLocks   the same goroutines with one step per lock operation:     *)
(*               registration, one RunAllChecks, its workers and periodic  *)
(*               goroutine, Draw as the callback, and the input handler    *)
(***************************************************************************)
EXTENDS Integers, Sequences, FiniteSets, TLC

\* ------------------------------------------------------------------ bounds
MaxItems == 2        \* AddCheck calls made over one behaviour
MaxReportItems == 1  \* the same, in SpecReport
MaxRunAll == 2       \* RunAllChecks invocations made over one behaviour
MaxLimit == 2        \* largest maxConcurrentChecks handed to NewCheckManager
MaxStops == 2        \* UIRenderer.Stop calls made over one behaviour

\* --------------------------------------------------------------- constants
StatusPending == "Pending"
StatusInProgress == "InProgress"
StatusCompleted == "Completed"
StatusFailed == "Failed"

CheckStatus == {StatusPending, StatusInProgress, StatusCompleted, StatusFailed}

Terminal == {StatusCompleted, StatusFailed}

\* The error value nil, and the errors a check function may return.
NoError == "nil"
Errors == {"e1", "e2"}

\* The names AddCheck is called with.
Names == {"check"}

\* The (percentage, message) pairs a check function calls ReportSubProgress with.
ReportCalls == {<<-10, "low">>, <<42, "mid">>, <<110, "high">>}

\* The values NewCheckManager is called with: below the minimum, and the largest.
LimitInputs == {0, MaxLimit}

\* The heights of the screen: too small to draw the list, and the smallest that is not.
Heights == {2, 3}

RunAllIds == 1..MaxRunAll
ItemIds == 1..MaxItems

VARIABLES
    maxConcurrentChecks, \* the argument of NewCheckManager
    hasUiUpdate,         \* cm.uiUpdate != nil
    items,               \* the CheckItems made by AddCheck, in the order they were made;
                         \* the pointer p points to items[p]
    cmItems,             \* cm.items: the slice of the pointers to the items
    itemCounter,         \* cm.itemCounter
    activeWorkers,       \* number of tokens in the channel cm.activeWorkers
    runAll,              \* per RunAllChecks invocation: pc, itemsToRun, loop index
    worker,              \* worker[r][i]: pc of the goroutine invocation r started for item i
    notifier,            \* per invocation: the periodic goroutine
    dropped,             \* the item of the ReportSubProgress call just made, if it
                         \* found the guard false; else 0
    alive,               \* FALSE once an unrecovered panic has terminated the process
    quit,                \* ui.quit: "open" or "closed"
    screen,              \* "init", or "fini" after screen.Fini()
    uiRun,               \* pc of UIRenderer.Run
    evLoop,              \* pc of the event-loop goroutine of UIRenderer.Run
    cbDraw,              \* pc of a Draw called through the manager's callback
    stops,               \* number of UIRenderer.Stop calls made
    uiMu,                \* holder of ui.mu, or "free"
    scrollTop,           \* ui.scrollTop
    height,              \* rows of the screen
    workerUpdates,       \* workerUpdates[r][i]: the calls of cm.uiUpdate made so far by the
                         \* goroutine invocation r started for item i
    snap,                \* a slice a caller got from GetItems and keeps
    progress,            \* a call of CalculateOverallProgress: its pc, loop index and
                         \* completedCount, its result, and the numbers of terminal
                         \* items there have been since the call began
    locks,               \* the holders of ui.mu, of cm.mu and of each item's mu
    thread               \* per goroutine, at the level of the locks: the lock operation
                         \* it is at, the locks it holds in the order it took them, its
                         \* loop index, the length of its copy of the items, and the
                         \* places its calls return to

schedVars == <<maxConcurrentChecks, hasUiUpdate, items, cmItems, itemCounter,
               activeWorkers,
               runAll, worker, notifier, dropped>>
uiVars == <<quit, screen, uiRun, evLoop, cbDraw, stops, uiMu, scrollTop, height>>
vars == <<schedVars, uiVars, alive, progress, snap, workerUpdates, locks, thread>>

\* ------------------------------------------------------------ CheckItem
\* item.go NewCheckItem: the zero values of the fields it does not set.
NewCheckItem(id, name) ==
    [ID |-> id, Name |-> name, Status |-> StatusPending, SubProgress |-> 0,
     SubMessage |-> "", Error |-> NoError, reporterActive |-> FALSE]

\* Clamp without the test for a negative percentage.
ClampUpperOnly(percentage) ==
    IF percentage > 100 THEN 100 ELSE percentage

\* item.go ReportSubProgress, lines 58-63: the clamp of the percentage.
Clamp(percentage) ==
    IF percentage < 0 THEN 0
    ELSE IF percentage > 100 THEN 100
    ELSE percentage

\* item.go ReportSubProgress, line 57: the guard of the store.
ReporterGuard(item) ==
    item.Status = StatusInProgress /\ item.reporterActive

\* ReportSubProgress without the guard of line 57.
ReportSubProgressUnguarded(item, percentage, message) ==
    [item EXCEPT !.SubProgress = Clamp(percentage), !.SubMessage = message]

\* item.go ReportSubProgress: the item after the call.
ReportSubProgress(item, percentage, message) ==
    IF ReporterGuard(item)
    THEN [item EXCEPT !.SubProgress = Clamp(percentage), !.SubMessage = message]
    ELSE item

\* item.go Run, lines 74-80: the first critical section.
RunBegin(item) ==
    [item EXCEPT !.Status = StatusInProgress, !.SubProgress = 0, !.SubMessage = "",
                 !.Error = NoError, !.reporterActive = TRUE]

\* A Run that clears the message and forces the percentage when it finalises the item.
RunEndResets(item, err) ==
    IF err # NoError
    THEN [item EXCEPT !.reporterActive = FALSE, !.Status = StatusFailed, !.Error = err,
                      !.SubProgress = 100, !.SubMessage = ""]
    ELSE [item EXCEPT !.reporterActive = FALSE, !.Status = StatusCompleted,
                      !.SubProgress = 100, !.SubMessage = ""]

\* item.go Run, lines 85-94: the second critical section, err the value runFunc returned.
RunEnd(item, err) ==
    IF err # NoError
    THEN [item EXCEPT !.reporterActive = FALSE, !.Status = StatusFailed, !.Error = err]
    ELSE [item EXCEPT !.reporterActive = FALSE, !.Status = StatusCompleted,
                      !.SubProgress = 100]

\* ---------------------------------------------------------- CheckManager
\* A channel made with one slot too many.
CapacityOffByOne == (IF maxConcurrentChecks > 1 THEN maxConcurrentChecks ELSE 1) + 1

\* NewCheckManager, line 20: the capacity of the channel activeWorkers.
Capacity == IF maxConcurrentChecks > 1 THEN maxConcurrentChecks ELSE 1

\* GetItems, lines 44-46: the elements of the slice it returns, copied from cm.items.
GetItems == cmItems

IsTerminal(i) == items[i].Status \in Terminal

NoNotifier == [pc |-> "none", n |-> 0, k |-> 0, allDone |-> FALSE]

InitSched ==
    /\ maxConcurrentChecks \in LimitInputs
    /\ hasUiUpdate \in BOOLEAN
    /\ items = <<>>
    /\ cmItems = <<>>
    /\ itemCounter = 0
    /\ activeWorkers = 0
    /\ runAll = [r \in RunAllIds |->
                    [pc |-> "idle", itemsToRun |-> <<>>, idx |-> 0, pendingAtCall |-> {}]]
    /\ worker = [r \in RunAllIds |-> [i \in ItemIds |-> "none"]]
    /\ notifier = [r \in RunAllIds |-> NoNotifier]
    /\ dropped = 0

\* The number of items whose status is Completed or Failed.
DoneCount(its) == Cardinality({i \in 1..Len(its) : its[i].Status \in Terminal})

\* What a call of CalculateOverallProgress in progress has lived through: the numbers of
\* terminal items of the states since its call.  The code keeps no such value.
Observe(its) ==
    IF progress.pc = "scan"
    THEN [progress EXCEPT !.seen = @ \cup {DoneCount(its)}]
    ELSE progress

\* An AddCheck that makes the item before it increments the counter.
AddCheckStaleId(name) ==
    /\ alive
    /\ Len(items) < MaxItems
    /\ progress.pc # "scan"
    /\ itemCounter' = itemCounter + 1
    /\ items' = Append(items, NewCheckItem(itemCounter, name))
    /\ cmItems' = Append(cmItems, Len(items) + 1)
    /\ dropped' = 0
    /\ UNCHANGED <<maxConcurrentChecks, hasUiUpdate, activeWorkers, runAll, worker,
                   notifier, alive, uiVars, progress, snap, workerUpdates, locks, thread>>

\* AddCheck(name, fn): the whole body runs under cm.mu, so concurrent calls take effect
\* one after the other.
AddCheck(name) ==
    /\ alive
    /\ Len(items) < MaxItems
    /\ progress.pc # "scan"      \* cm.mu.Lock() waits for the reader to unlock
    /\ itemCounter' = itemCounter + 1
    /\ items' = Append(items, NewCheckItem(itemCounter + 1, name))
    /\ cmItems' = Append(cmItems, Len(items) + 1)
    /\ dropped' = 0
    /\ UNCHANGED <<maxConcurrentChecks, hasUiUpdate, activeWorkers, runAll, worker,
                   notifier, alive, uiVars, progress, snap, workerUpdates, locks, thread>>

\* The positions of the items whose status is Pending.
PendingItems == {i \in 1..Len(items) : items[i].Status = StatusPending}

\* RunAllChecks, line 51: the call and its snapshot of the items.  pendingAtCall
\* records which items were Pending at the call; the code keeps no such value.
RunAllChecks(r) ==
    /\ alive
    /\ runAll[r].pc = "idle"
    /\ runAll' = [runAll EXCEPT ![r] = [pc |-> "loop", itemsToRun |-> GetItems, idx |-> 1,
                                        pendingAtCall |-> PendingItems]]
    /\ dropped' = 0
    /\ UNCHANGED <<maxConcurrentChecks, hasUiUpdate, items, itemCounter, cmItems, activeWorkers,
                   worker, notifier, alive, uiVars, progress, snap, workerUpdates, locks, thread>>

\* A loop over the manager's list as it is now, not over the copy taken at the call.
ItemsLive(r) == GetItems

\* RunAllChecks, line 54: the slice the loop ranges over, the copy taken at line 51.
ItemsToRun(r) == runAll[r].itemsToRun

\* A launcher that skips only the items that have Completed.
IsNotCompleted(item) == item.Status # StatusCompleted

\* RunAllChecks, line 57: what the launcher reads under the item's lock.
IsPending(item) == item.Status = StatusPending

\* RunAllChecks, lines 54-61: one iteration of the loop up to the channel send.
Examine(r) ==
    /\ alive
    /\ runAll[r].pc = "loop"
    /\ runAll[r].idx <= Len(ItemsToRun(r))
    /\ LET item == items[ItemsToRun(r)[runAll[r].idx]]
       IN  IF IsPending(item)
           THEN runAll' = [runAll EXCEPT ![r].pc = "acquire"]
           ELSE runAll' = [runAll EXCEPT ![r].idx = @ + 1]
    /\ dropped' = 0
    /\ UNCHANGED <<maxConcurrentChecks, hasUiUpdate, items, itemCounter, cmItems, activeWorkers,
                   worker, notifier, alive, uiVars, progress, snap, workerUpdates, locks, thread>>

\* RunAllChecks, lines 62-72: the send on activeWorkers (blocks while the channel is
\* full) and the go statement.
Acquire(r) ==
    /\ alive
    /\ runAll[r].pc = "acquire"
    /\ activeWorkers < Capacity
    /\ activeWorkers' = activeWorkers + 1
    /\ worker' = [worker EXCEPT ![r][ItemsToRun(r)[runAll[r].idx]] = "start"]
    /\ runAll' = [runAll EXCEPT ![r].pc = "loop", ![r].idx = @ + 1]
    /\ dropped' = 0
    /\ UNCHANGED <<maxConcurrentChecks, hasUiUpdate, items, itemCounter, cmItems, notifier,
                   alive, uiVars, progress, snap, workerUpdates, locks, thread>>

\* A RunAllChecks that leaves its loop after any iteration.
StartNotifierEarly(r) ==
    /\ alive
    /\ runAll[r].pc = "loop"
    /\ runAll' = [runAll EXCEPT ![r].pc = "returned"]
    /\ notifier' = [notifier EXCEPT ![r].pc = "top"]
    /\ dropped' = 0
    /\ UNCHANGED <<maxConcurrentChecks, hasUiUpdate, items, itemCounter, cmItems, activeWorkers,
                   worker, alive, uiVars, progress, snap, workerUpdates, locks, thread>>

\* RunAllChecks, lines 79-109: the go statement of the periodic goroutine, and the return.
StartNotifier(r) ==
    /\ alive
    /\ runAll[r].pc = "loop"
    /\ runAll[r].idx > Len(ItemsToRun(r))
    /\ runAll' = [runAll EXCEPT ![r].pc = "returned"]
    /\ notifier' = [notifier EXCEPT ![r].pc = "top"]
    /\ dropped' = 0
    /\ UNCHANGED <<maxConcurrentChecks, hasUiUpdate, items, itemCounter, cmItems, activeWorkers,
                   worker, alive, uiVars, progress, snap, workerUpdates, locks, thread>>

\* The worker goroutine, line 68: check.Run() up to the call of runFunc.
WorkerRunBegin(r, i) ==
    /\ alive
    /\ worker[r][i] = "start"
    /\ items' = [items EXCEPT ![i] = RunBegin(@)]
    /\ worker' = [worker EXCEPT ![r][i] = "running"]
    /\ dropped' = 0
    /\ progress' = Observe(items')
    /\ UNCHANGED <<maxConcurrentChecks, hasUiUpdate, itemCounter, cmItems, activeWorkers, runAll,
                   notifier, alive, uiVars, snap, workerUpdates, locks, thread>>

\* A reporter for item i exists once some Run of it has reached line 82; the check
\* function, or a goroutine it left behind, may call it at any time from then on.
ReporterExists(i) ==
    \E r \in RunAllIds : worker[r][i] \notin {"none", "start"}

\* A reporter without the lock: a call whose two stores are separated by another call's,
\* seen when its store of the percentage is the last one.
ReportPercentOnly(i, call) ==
    /\ alive
    /\ i \in 1..Len(items)
    /\ ReporterExists(i)
    /\ items' = [items EXCEPT ![i] = IF ReporterGuard(@)
                                      THEN [@ EXCEPT !.SubProgress = Clamp(call[1])]
                                      ELSE @]
    /\ dropped' = IF ReporterGuard(items[i]) THEN 0 ELSE i
    /\ UNCHANGED <<maxConcurrentChecks, hasUiUpdate, itemCounter, cmItems, activeWorkers,
                   runAll, worker, notifier, alive, uiVars, progress, snap, workerUpdates, locks, thread>>

\* The reporter's ReportSubProgress called by the check function or by a goroutine it
\* started: the whole body runs under the item's lock (item.go, lines 55-56).
Report(i, call) ==
    /\ alive
    /\ i \in 1..Len(items)
    /\ ReporterExists(i)
    /\ items' = [items EXCEPT ![i] = ReportSubProgress(@, call[1], call[2])]
    /\ dropped' = IF ReporterGuard(items[i]) THEN 0 ELSE i
    /\ UNCHANGED <<maxConcurrentChecks, hasUiUpdate, itemCounter, cmItems, activeWorkers, runAll,
                   worker, notifier, alive, uiVars, progress, snap, workerUpdates, locks, thread>>

\* A worker that returns after check.Run() without the call of cm.uiUpdate.
WorkerRunEndNoUpdate(r, i, err) ==
    /\ alive
    /\ worker[r][i] = "running"
    /\ items' = [items EXCEPT ![i] = RunEnd(@, err)]
    /\ worker' = [worker EXCEPT ![r][i] = "release"]
    /\ dropped' = 0
    /\ progress' = Observe(items')
    /\ UNCHANGED <<maxConcurrentChecks, hasUiUpdate, itemCounter, cmItems, activeWorkers,
                   runAll, notifier, alive, uiVars, snap, workerUpdates, locks, thread>>

\* The worker goroutine, line 68: runFunc returns err and Run finalises the item.
WorkerRunEnd(r, i, err) ==
    /\ alive
    /\ worker[r][i] = "running"
    /\ items' = [items EXCEPT ![i] = RunEnd(@, err)]
    /\ worker' = [worker EXCEPT ![r][i] = IF hasUiUpdate THEN "notify" ELSE "release"]
    /\ dropped' = 0
    /\ progress' = Observe(items')
    /\ UNCHANGED <<maxConcurrentChecks, hasUiUpdate, itemCounter, cmItems, activeWorkers, runAll,
                   notifier, alive, uiVars, snap, workerUpdates, locks, thread>>

\* The worker goroutine, lines 69-71: the call of cm.uiUpdate.
WorkerUiUpdate(r, i) ==
    /\ alive
    /\ worker[r][i] = "notify"
    /\ worker' = [worker EXCEPT ![r][i] = "release"]
    /\ workerUpdates' = [workerUpdates EXCEPT ![r][i] = @ + 1]
    /\ dropped' = 0
    /\ UNCHANGED <<maxConcurrentChecks, hasUiUpdate, items, itemCounter, cmItems, activeWorkers,
                   runAll, notifier, alive, uiVars, progress, snap, locks, thread>>

\* A worker that returns without the receive from activeWorkers.
WorkerReleaseLeak(r, i) ==
    /\ alive
    /\ worker[r][i] = "release"
    /\ worker' = [worker EXCEPT ![r][i] = "done"]
    /\ dropped' = 0
    /\ UNCHANGED <<maxConcurrentChecks, hasUiUpdate, items, itemCounter, cmItems, activeWorkers,
                   runAll, notifier, alive, uiVars, progress, snap, workerUpdates, locks, thread>>

\* The worker goroutine, lines 65-66: the deferred receive from activeWorkers.
WorkerRelease(r, i) ==
    /\ alive
    /\ worker[r][i] = "release"
    /\ activeWorkers' = activeWorkers - 1
    /\ worker' = [worker EXCEPT ![r][i] = "done"]
    /\ dropped' = 0
    /\ UNCHANGED <<maxConcurrentChecks, hasUiUpdate, items, itemCounter, cmItems, runAll,
                   notifier, alive, uiVars, progress, snap, workerUpdates, locks, thread>>

\* The periodic goroutine, lines 81-82: the top of its loop and its GetItems.
NotifierGetItems(r) ==
    /\ alive
    /\ notifier[r].pc = "top"
    /\ notifier' = [notifier EXCEPT ![r] = [pc |-> "scan", n |-> Len(GetItems), k |-> 1,
                                            allDone |-> TRUE]]
    /\ dropped' = 0
    /\ UNCHANGED <<maxConcurrentChecks, hasUiUpdate, items, itemCounter, cmItems, activeWorkers,
                   runAll, worker, alive, uiVars, progress, snap, workerUpdates, locks, thread>>

\* The periodic goroutine, lines 83-91: one iteration of the scan (one item's status
\* read under its lock), or the end of the scan.
NotifierScan(r) ==
    /\ alive
    /\ notifier[r].pc = "scan"
    /\ IF notifier[r].k > notifier[r].n
       THEN notifier' = [notifier EXCEPT ![r].pc = "update"]
       ELSE IF items[notifier[r].k].Status \in {StatusPending, StatusInProgress}
            THEN notifier' = [notifier EXCEPT ![r].pc = "update", ![r].allDone = FALSE]
            ELSE notifier' = [notifier EXCEPT ![r].k = @ + 1]
    /\ dropped' = 0
    /\ UNCHANGED <<maxConcurrentChecks, hasUiUpdate, items, itemCounter, cmItems, activeWorkers,
                   runAll, worker, alive, uiVars, progress, snap, workerUpdates, locks, thread>>

\* The periodic goroutine, lines 93-104: the call of cm.uiUpdate; when not all items
\* were seen done, the sleep and the next iteration.
NotifierUiUpdate(r) ==
    /\ alive
    /\ notifier[r].pc = "update"
    /\ notifier' = [notifier EXCEPT ![r].pc = IF notifier[r].allDone THEN "final" ELSE "top"]
    /\ dropped' = 0
    /\ UNCHANGED <<maxConcurrentChecks, hasUiUpdate, items, itemCounter, cmItems, activeWorkers,
                   runAll, worker, alive, uiVars, progress, snap, workerUpdates, locks, thread>>

\* The periodic goroutine, lines 97-102: the final call of cm.uiUpdate and the return.
NotifierFinal(r) ==
    /\ alive
    /\ notifier[r].pc = "final"
    /\ notifier' = [notifier EXCEPT ![r].pc = "stopped"]
    /\ dropped' = 0
    /\ UNCHANGED <<maxConcurrentChecks, hasUiUpdate, items, itemCounter, cmItems, activeWorkers,
                   runAll, worker, alive, uiVars, progress, snap, workerUpdates, locks, thread>>

\* CalculateOverallProgress, line 129: the values returned for completedCount items
\* counted out of totalCount.
OverallProgress(completedCount, totalCount) ==
    <<completedCount, totalCount, (completedCount * 100) \div totalCount>>

\* CalculateOverallProgress, lines 113-120: RLock of cm.mu; with no item the return of
\* (0, 0, 0), else the start of the loop.
ProgressCall ==
    /\ alive
    /\ progress.pc \in {"idle", "returned"}
    /\ progress' = IF Len(cmItems) = 0
                   THEN [pc |-> "returned", k |-> 0, completedCount |-> 0,
                         result |-> <<0, 0, 0>>, seen |-> {0}]
                   ELSE [pc |-> "scan", k |-> 1, completedCount |-> 0,
                         result |-> <<0, 0, 0>>, seen |-> {DoneCount(items)}]
    /\ dropped' = 0
    /\ UNCHANGED <<maxConcurrentChecks, hasUiUpdate, items, itemCounter, cmItems, activeWorkers,
                   runAll, worker, notifier, alive, uiVars, snap, workerUpdates, locks, thread>>

\* CalculateOverallProgress, lines 121-129: one iteration of the loop (one item's status
\* read under its lock); after the last one, the return and the deferred RUnlock.
ProgressScan ==
    /\ alive
    /\ progress.pc = "scan"
    /\ LET count == IF items[cmItems[progress.k]].Status = StatusCompleted
                        \/ items[cmItems[progress.k]].Status = StatusFailed
                    THEN progress.completedCount + 1
                    ELSE progress.completedCount
       IN  IF progress.k < Len(cmItems)
           THEN progress' = [progress EXCEPT !.k = @ + 1, !.completedCount = count]
           ELSE progress' = [progress EXCEPT !.pc = "returned", !.completedCount = count,
                                             !.result = OverallProgress(count, Len(cmItems))]
    /\ dropped' = 0
    /\ UNCHANGED <<maxConcurrentChecks, hasUiUpdate, items, itemCounter, cmItems, activeWorkers,
                   runAll, worker, notifier, alive, uiVars, snap, workerUpdates, locks, thread>>

\* --------------------------------------------------- a caller of GetItems
\* A GetItems that returns cm.items itself: the slice shares the manager's array.
GetItemsSharesArray == TRUE

\* GetItems, line 44: make gives the returned slice an array of its own.
GetItemsShares == FALSE

\* The caller holds no slice.
NoSnap == [held |-> FALSE, shared |-> FALSE, touched |-> FALSE, elems |-> <<>>]

\* s := cm.GetItems() (under cm.mu.RLock, which a reader of CalculateOverallProgress
\* does not block).  shared: the slice and cm.items have the same array; touched: the
\* caller has written to the slice since.
SnapTake ==
    /\ alive
    /\ snap' = [held |-> TRUE, shared |-> GetItemsShares, touched |-> FALSE,
                elems |-> GetItems]
    /\ dropped' = 0
    /\ UNCHANGED <<maxConcurrentChecks, hasUiUpdate, items, cmItems, itemCounter,
                   activeWorkers, runAll, worker, notifier, alive, uiVars, progress, workerUpdates, locks, thread>>

\* s[k] = nil (0 stands for nil): a write to the array of s, which every slice that
\* shares the array sees.
SnapReplace(k) ==
    /\ alive
    /\ snap.held
    /\ k \in 1..Len(snap.elems)
    /\ snap.elems[k] # 0
    /\ snap' = [snap EXCEPT !.elems[k] = 0, !.touched = TRUE]
    /\ cmItems' = IF snap.shared THEN [cmItems EXCEPT ![k] = 0] ELSE cmItems
    /\ dropped' = 0
    /\ UNCHANGED <<maxConcurrentChecks, hasUiUpdate, items, itemCounter, activeWorkers,
                   runAll, worker, notifier, alive, uiVars, progress, workerUpdates, locks, thread>>

\* s = append(s[:k-1], s[k:]...): the elements after position k move down by one in the
\* array of s, and s gets shorter by one.
SnapRemove(k) ==
    /\ alive
    /\ snap.held
    /\ k \in 1..Len(snap.elems)
    /\ snap' = [snap EXCEPT !.elems = [j \in 1..(Len(snap.elems) - 1) |->
                                          IF j < k THEN snap.elems[j] ELSE snap.elems[j + 1]],
                            !.touched = TRUE]
    /\ cmItems' = IF snap.shared
                  THEN [j \in 1..Len(cmItems) |->
                           IF j >= k /\ j < Len(snap.elems) THEN snap.elems[j + 1]
                           ELSE cmItems[j]]
                  ELSE cmItems
    /\ dropped' = 0
    /\ UNCHANGED <<maxConcurrentChecks, hasUiUpdate, items, itemCounter, activeWorkers,
                   runAll, worker, notifier, alive, uiVars, progress, workerUpdates, locks, thread>>

\* ------------------------------------------------- a check function that panics
\* runFunc panics at line 83 of item.go: Run has no deferred call and no recover, so
\* the second critical section of Run is skipped and the goroutine unwinds.
WorkerPanic(r, i) ==
    /\ alive
    /\ worker[r][i] = "running"
    /\ worker' = [worker EXCEPT ![r][i] = "panicking"]
    /\ dropped' = 0
    /\ UNCHANGED <<maxConcurrentChecks, hasUiUpdate, items, itemCounter, cmItems, activeWorkers,
                   runAll, notifier, alive, uiVars, progress, snap, workerUpdates, locks, thread>>

\* A worker whose receive from activeWorkers is not deferred: a panic skips it.
WorkerPanicNoRelease(r, i) ==
    /\ alive
    /\ worker[r][i] = "panicking"
    /\ activeWorkers' = activeWorkers
    /\ worker' = [worker EXCEPT ![r][i] = "crashing"]
    /\ dropped' = 0
    /\ UNCHANGED <<maxConcurrentChecks, hasUiUpdate, items, itemCounter, cmItems, runAll,
                   notifier, alive, uiVars, progress, snap, workerUpdates, locks, thread>>

\* The unwinding goroutine runs its deferred calls, lines 65-66: the receive from
\* activeWorkers.
WorkerPanicRelease(r, i) ==
    /\ alive
    /\ worker[r][i] = "panicking"
    /\ activeWorkers' = activeWorkers - 1
    /\ worker' = [worker EXCEPT ![r][i] = "crashing"]
    /\ dropped' = 0
    /\ UNCHANGED <<maxConcurrentChecks, hasUiUpdate, items, itemCounter, cmItems, runAll,
                   notifier, alive, uiVars, progress, snap, workerUpdates, locks, thread>>

\* No deferred call of the goroutine recovers: the Go runtime terminates the process.
ProcessExit(r, i) ==
    /\ alive
    /\ worker[r][i] = "crashing"
    /\ alive' = FALSE
    /\ dropped' = 0
    /\ UNCHANGED <<maxConcurrentChecks, hasUiUpdate, items, itemCounter, cmItems, activeWorkers,
                   runAll, worker, notifier, uiVars, progress, snap, workerUpdates, locks, thread>>

\* ------------------------------------------------------------ UIRenderer
InitUI ==
    /\ quit = "open"
    /\ screen = "init"
    /\ uiRun = "idle"
    /\ evLoop = "none"
    /\ cbDraw = "idle"
    /\ stops = 0
    /\ uiMu = "free"
    /\ scrollTop = 0
    /\ height \in Heights

\* Draw, lines 105-110: the scroll position after the clamp.
ClampScroll(top, numItems, h) ==
    LET displayableRows == h - 1
    IN  IF top > 0 /\ top >= numItems - displayableRows + 1 /\ numItems > displayableRows
        THEN IF numItems - displayableRows > 0 THEN numItems - displayableRows ELSE 0
        ELSE top

\* A Draw that does not take ui.mu.
DrawNoLock(p) ==
    /\ uiMu' = p
    /\ scrollTop' = IF height < 3 THEN scrollTop
                    ELSE ClampScroll(scrollTop, Len(GetItems), height)

\* Draw, lines 91-110: Lock, Clear, Size, the small-screen test, GetItems, the clamp.
DrawLock(p) ==
    /\ uiMu = "free"
    /\ uiMu' = p
    /\ scrollTop' = IF height < 3 THEN scrollTop
                    ELSE ClampScroll(scrollTop, Len(GetItems), height)

\* Draw, lines 99-100 or 112-189 and the deferred Unlock: the cells, Show, Unlock.
DrawShow(p) ==
    /\ uiMu = p
    /\ uiMu' = "free"

\* close(ui.quit), lines 224 and 261: closing a closed channel panics, and neither the
\* event-loop goroutine nor the caller of Stop recovers.
CloseQuit ==
    IF quit = "closed"
    THEN /\ alive' = FALSE
         /\ UNCHANGED quit
    ELSE /\ quit' = "closed"
         /\ UNCHANGED alive

\* Run, line 202: the initial Draw, up to the clamp.
RunDrawLock ==
    /\ alive
    /\ uiRun = "idle"
    /\ DrawLock("run")
    /\ uiRun' = "drawing"
    /\ UNCHANGED <<quit, screen, evLoop, cbDraw, stops, height, alive, schedVars, progress, snap, workerUpdates, locks, thread>>

\* Run, lines 202-249: the end of the initial Draw and the go statement of the event loop.
RunDrawShow ==
    /\ alive
    /\ uiRun = "drawing"
    /\ DrawShow("run")
    /\ uiRun' = "wait"
    /\ evLoop' = "select"
    /\ UNCHANGED <<quit, screen, cbDraw, stops, scrollTop, height, alive, schedVars, progress, snap, workerUpdates, locks, thread>>

\* Run, lines 254-256: the receive from ui.quit, then screen.Fini() and the return.
RunFini ==
    /\ alive
    /\ uiRun = "wait"
    /\ quit = "closed"
    /\ screen' = "fini"
    /\ uiRun' = "returned"
    /\ UNCHANGED <<quit, evLoop, cbDraw, stops, uiMu, scrollTop, height, alive, schedVars, progress, snap, workerUpdates, locks, thread>>

\* Stop, line 261.
Stop ==
    /\ alive
    /\ stops < MaxStops
    /\ stops' = stops + 1
    /\ CloseQuit
    /\ UNCHANGED <<screen, uiRun, evLoop, cbDraw, uiMu, scrollTop, height, schedVars, progress, snap, workerUpdates, locks, thread>>

\* The event loop, lines 207-211: the select; with ui.quit closed the goroutine returns,
\* otherwise it calls PollEvent.
EvSelect ==
    /\ alive
    /\ evLoop = "select"
    /\ evLoop' = IF quit = "closed" THEN "exited" ELSE "poll"
    /\ UNCHANGED <<quit, screen, uiRun, cbDraw, stops, uiMu, scrollTop, height, alive,
                   schedVars, progress, snap, workerUpdates, locks, thread>>

\* The event loop, lines 211-214: PollEvent returns nil, or an event that no case handles.
EvNone ==
    /\ alive
    /\ evLoop = "poll"
    /\ evLoop' = "select"
    /\ UNCHANGED <<quit, screen, uiRun, cbDraw, stops, uiMu, scrollTop, height, alive,
                   schedVars, progress, snap, workerUpdates, locks, thread>>

\* The event loop, lines 223-226: a quit key (Escape, Ctrl-C or q).
EvQuitKey ==
    /\ alive
    /\ evLoop = "poll"
    /\ CloseQuit
    /\ evLoop' = "exited"
    /\ UNCHANGED <<screen, uiRun, cbDraw, stops, uiMu, scrollTop, height, schedVars, progress, snap, workerUpdates, locks, thread>>

\* The event loop, lines 217-220: a resize to h rows; Lock, Sync, Unlock.
EvResize(h) ==
    /\ alive
    /\ evLoop = "poll"
    /\ uiMu = "free"
    /\ height' = h
    /\ evLoop' = "draw"
    /\ UNCHANGED <<quit, screen, uiRun, cbDraw, stops, uiMu, scrollTop, alive, schedVars, progress, snap, workerUpdates, locks, thread>>

\* The event loop, lines 227-235: the Down key.
EvKeyDown ==
    /\ alive
    /\ evLoop = "poll"
    /\ uiMu = "free"
    /\ scrollTop' = IF scrollTop < Len(GetItems) - (height - 1)
                    THEN scrollTop + 1 ELSE scrollTop
    /\ evLoop' = "draw"
    /\ UNCHANGED <<quit, screen, uiRun, cbDraw, stops, uiMu, height, alive, schedVars, progress, snap, workerUpdates, locks, thread>>

\* The event loop, lines 238-243: the Up key.
EvKeyUp ==
    /\ alive
    /\ evLoop = "poll"
    /\ uiMu = "free"
    /\ scrollTop' = IF scrollTop > 0 THEN scrollTop - 1 ELSE scrollTop
    /\ evLoop' = "draw"
    /\ UNCHANGED <<quit, screen, uiRun, cbDraw, stops, uiMu, height, alive, schedVars, progress, snap, workerUpdates, locks, thread>>

\* The event loop, lines 221, 236, 244: the Draw after an event, up to the clamp.
EvDrawLock ==
    /\ alive
    /\ evLoop = "draw"
    /\ DrawLock("ev")
    /\ evLoop' = "drawing"
    /\ UNCHANGED <<quit, screen, uiRun, cbDraw, stops, height, alive, schedVars, progress, snap, workerUpdates, locks, thread>>

EvDrawShow ==
    /\ alive
    /\ evLoop = "drawing"
    /\ DrawShow("ev")
    /\ evLoop' = "select"
    /\ UNCHANGED <<quit, screen, uiRun, cbDraw, stops, scrollTop, height, alive, schedVars, progress, snap, workerUpdates, locks, thread>>

\* The callback handed to NewCheckManager in the example (main, lines 28-32) calls
\* ui.Draw; the manager's goroutines call it at any time.
CbDrawLock ==
    /\ alive
    /\ cbDraw = "idle"
    /\ DrawLock("cb")
    /\ cbDraw' = "drawing"
    /\ UNCHANGED <<quit, screen, uiRun, evLoop, stops, height, alive, schedVars, progress, snap, workerUpdates, locks, thread>>

CbDrawShow ==
    /\ alive
    /\ cbDraw = "drawing"
    /\ DrawShow("cb")
    /\ cbDraw' = "idle"
    /\ UNCHANGED <<quit, screen, uiRun, evLoop, stops, scrollTop, height, alive, schedVars, progress, snap, workerUpdates, locks, thread>>

\* ------------------------------------------------- locks and goroutines
\* The same program at the level of its locks: each goroutine is at one lock operation
\* (or at the send or receive on cm.activeWorkers) of the function it runs, and holds the
\* locks it has taken.  A call pushes the place the callee returns to.

\* The goroutines.  The worker started for items[i] is i.
Workers == ItemIds
Launcher == MaxItems + 1
Notifier == MaxItems + 2
Input == MaxItems + 3
Adder == MaxItems + 4
Threads == Workers \cup {Launcher, Notifier, Input, Adder}

\* The locks: ui.mu, cm.mu and the mu of items[i].
UiMu == <<"ui.mu", 0>>
CmMu == <<"cm.mu", 0>>
ItemMu(i) == <<"item.mu", i>>

\* No lock is held.  cm.mu is a sync.RWMutex: its readers, its writer, and whether a
\* Lock() has announced itself and waits for the readers to leave.
NoLocks == [ui |-> {}, cmReaders |-> {}, cmWriter |-> {}, cmPending |-> FALSE,
            item |-> [i \in ItemIds |-> {}]]

\* A goroutine that has not started.
NoThread == [pc |-> "idle", held |-> <<>>, k |-> 0, n |-> 0, stack |-> <<>>]

InitLocks ==
    /\ locks = NoLocks
    /\ thread = [t \in Threads |-> NoThread]

\* The variables the lock operations leave alone.
lockRest == <<maxConcurrentChecks, hasUiUpdate, runAll, worker, notifier, dropped, alive,
              uiVars, progress, snap, workerUpdates>>

\* The held locks without the one taken last.
Released(t) == SubSeq(thread[t].held, 1, Len(thread[t].held) - 1)

\* The stack of return places without its top.
Popped(t) == SubSeq(thread[t].stack, 1, Len(thread[t].stack) - 1)

\* The place the running function of t returns to.
ReturnPc(t) == thread[t].stack[Len(thread[t].stack)]

\* sync.Mutex.Lock returns when nobody holds the mutex.
MutexFree(holders) == holders = {}

\* sync.RWMutex.RLock returns when there is no writer and no Lock() waiting.
CanRLock == locks.cmWriter = {} /\ ~locks.cmPending

\* sync.RWMutex.Lock returns when there is neither a reader nor a writer.
CanLock == locks.cmReaders = {} /\ locks.cmWriter = {}

\* ---- GetItems (part_001, lines 39-47)
GetItemsRLock(t) ==
    /\ thread[t].pc = "GetItems"
    /\ CanRLock
    /\ locks' = [locks EXCEPT !.cmReaders = @ \cup {t}]
    /\ thread' = [thread EXCEPT ![t].pc = "GetItems.copy",
                                ![t].held = Append(@, CmMu)]
    /\ UNCHANGED <<lockRest, items, cmItems, itemCounter, activeWorkers>>

\* The copy and the deferred RUnlock.  The caller's loop over the copy starts at its
\* first element.
GetItemsReturn(t) ==
    /\ thread[t].pc = "GetItems.copy"
    /\ locks' = [locks EXCEPT !.cmReaders = @ \ {t}]
    /\ thread' = [thread EXCEPT ![t] = [pc |-> ReturnPc(t), held |-> Released(t), k |-> 1,
                                        n |-> Len(GetItems), stack |-> Popped(t)]]
    /\ UNCHANGED <<lockRest, items, cmItems, itemCounter, activeWorkers>>

\* ---- AddCheck (part_001, lines 30-36), called by a goroutine of the application
\* before it calls RunAllChecks
AddCheckCall ==
    /\ thread[Adder].pc = "idle"
    /\ thread[Launcher].pc = "idle"
    /\ Len(items) < MaxItems
    /\ locks' = [locks EXCEPT !.cmPending = TRUE]
    /\ thread' = [thread EXCEPT ![Adder].pc = "AddCheck.lock"]
    /\ UNCHANGED <<lockRest, items, cmItems, itemCounter, activeWorkers>>

AddCheckLock ==
    /\ thread[Adder].pc = "AddCheck.lock"
    /\ CanLock
    /\ locks' = [locks EXCEPT !.cmWriter = {Adder}]
    /\ thread' = [thread EXCEPT ![Adder].pc = "AddCheck.append",
                                ![Adder].held = Append(@, CmMu)]
    /\ UNCHANGED <<lockRest, items, cmItems, itemCounter, activeWorkers>>

AddCheckUnlock(name) ==
    /\ thread[Adder].pc = "AddCheck.append"
    /\ itemCounter' = itemCounter + 1
    /\ items' = Append(items, NewCheckItem(itemCounter + 1, name))
    /\ cmItems' = Append(cmItems, Len(items) + 1)
    /\ locks' = [locks EXCEPT !.cmWriter = {}, !.cmPending = FALSE]
    /\ thread' = [thread EXCEPT ![Adder].pc = "idle", ![Adder].held = Released(Adder)]
    /\ UNCHANGED <<lockRest, activeWorkers>>

\* ---- CalculateOverallProgress (part_001, lines 112-130)
CalculateOverallProgressRLock(t) ==
    /\ thread[t].pc = "CalculateOverallProgress"
    /\ CanRLock
    /\ locks' = [locks EXCEPT !.cmReaders = @ \cup {t}]
    /\ thread' = [thread EXCEPT ![t].pc = IF Len(cmItems) = 0
                                          THEN "CalculateOverallProgress.return"
                                          ELSE "CalculateOverallProgress.range",
                                ![t].held = Append(@, CmMu),
                                ![t].k = 1]
    /\ UNCHANGED <<lockRest, items, cmItems, itemCounter, activeWorkers>>

CalculateOverallProgressItemLock(t) ==
    /\ thread[t].pc = "CalculateOverallProgress.range"
    /\ MutexFree(locks.item[cmItems[thread[t].k]])
    /\ locks' = [locks EXCEPT !.item[cmItems[thread[t].k]] = {t}]
    /\ thread' = [thread EXCEPT ![t].pc = "CalculateOverallProgress.item",
                                ![t].held = Append(@, ItemMu(cmItems[thread[t].k]))]
    /\ UNCHANGED <<lockRest, items, cmItems, itemCounter, activeWorkers>>

CalculateOverallProgressItemUnlock(t) ==
    /\ thread[t].pc = "CalculateOverallProgress.item"
    /\ locks' = [locks EXCEPT !.item[cmItems[thread[t].k]] = {}]
    /\ thread' = [thread EXCEPT ![t].pc = IF thread[t].k + 1 > Len(cmItems)
                                          THEN "CalculateOverallProgress.return"
                                          ELSE "CalculateOverallProgress.range",
                                ![t].held = Released(t),
                                ![t].k = @ + 1]
    /\ UNCHANGED <<lockRest, items, cmItems, itemCounter, activeWorkers>>

CalculateOverallProgressReturn(t) ==
    /\ thread[t].pc = "CalculateOverallProgress.return"
    /\ locks' = [locks EXCEPT !.cmReaders = @ \ {t}]
    /\ thread' = [thread EXCEPT ![t].pc = ReturnPc(t), ![t].held = Released(t),
                                ![t].stack = Popped(t)]
    /\ UNCHANGED <<lockRest, items, cmItems, itemCounter, activeWorkers>>

\* ---- UIRenderer.Draw (render.go, lines 90-190)
\* ui.mu.Lock(); with fewer than 3 rows Draw returns without reading the items.
DrawMuLock(t) ==
    /\ thread[t].pc = "Draw"
    /\ MutexFree(locks.ui)
    /\ locks' = [locks EXCEPT !.ui = {t}]
    /\ \E h \in Heights :
           thread' = [thread EXCEPT
                          ![t].pc = IF h < 3 THEN "Draw.return" ELSE "GetItems",
                          ![t].held = Append(@, UiMu),
                          ![t].stack = IF h < 3 THEN @ ELSE Append(@, "Draw.range")]
    /\ UNCHANGED <<lockRest, items, cmItems, itemCounter, activeWorkers>>

\* The loop over the rows, lines 114-122; the model draws every item of the copy.
DrawItemLock(t) ==
    /\ thread[t].pc = "Draw.range"
    /\ thread[t].k <= thread[t].n
    /\ MutexFree(locks.item[thread[t].k])
    /\ locks' = [locks EXCEPT !.item[thread[t].k] = {t}]
    /\ thread' = [thread EXCEPT ![t].pc = "Draw.item",
                                ![t].held = Append(@, ItemMu(thread[t].k))]
    /\ UNCHANGED <<lockRest, items, cmItems, itemCounter, activeWorkers>>

\* After the last row, line 166: the call of CalculateOverallProgress, still under ui.mu.
DrawItemUnlock(t) ==
    /\ thread[t].pc = "Draw.item"
    /\ locks' = [locks EXCEPT !.item[thread[t].k] = {}]
    /\ thread' = [thread EXCEPT
                      ![t].pc = IF thread[t].k + 1 > thread[t].n
                                THEN "CalculateOverallProgress" ELSE "Draw.range",
                      ![t].held = Released(t),
                      ![t].k = @ + 1,
                      ![t].stack = IF thread[t].k + 1 > thread[t].n
                                   THEN Append(@, "Draw.return") ELSE @]
    /\ UNCHANGED <<lockRest, items, cmItems, itemCounter, activeWorkers>>

\* Line 166 when the copy has no items.
DrawProgress(t) ==
    /\ thread[t].pc = "Draw.range"
    /\ thread[t].k > thread[t].n
    /\ thread' = [thread EXCEPT ![t].pc = "CalculateOverallProgress",
                                ![t].stack = Append(@, "Draw.return")]
    /\ UNCHANGED <<lockRest, locks, items, cmItems, itemCounter, activeWorkers>>

\* The deferred ui.mu.Unlock().
DrawMuUnlock(t) ==
    /\ thread[t].pc = "Draw.return"
    /\ locks' = [locks EXCEPT !.ui = {}]
    /\ thread' = [thread EXCEPT ![t].pc = ReturnPc(t), ![t].held = Released(t),
                                ![t].stack = Popped(t)]
    /\ UNCHANGED <<lockRest, items, cmItems, itemCounter, activeWorkers>>

\* ---- CheckItem.Run (item.go, lines 73-95), in the worker of item t
RunLock(t) ==
    /\ thread[t].pc = "Run"
    /\ MutexFree(locks.item[t])
    /\ locks' = [locks EXCEPT !.item[t] = {t}]
    /\ thread' = [thread EXCEPT ![t].pc = "Run.begin", ![t].held = Append(@, ItemMu(t))]
    /\ UNCHANGED <<lockRest, items, cmItems, itemCounter, activeWorkers>>

\* A Run that calls the check function without unlocking first.
RunBeginKeepLock(t) ==
    /\ thread[t].pc = "Run.begin"
    /\ items' = [items EXCEPT ![t] = RunBegin(@)]
    /\ thread' = [thread EXCEPT ![t].pc = "runFunc"]
    /\ UNCHANGED <<lockRest, locks, cmItems, itemCounter, activeWorkers>>

\* Lines 75-80: the first critical section and its Unlock, then the check function.
RunBeginUnlock(t) ==
    /\ thread[t].pc = "Run.begin"
    /\ items' = [items EXCEPT ![t] = RunBegin(@)]
    /\ locks' = [locks EXCEPT !.item[t] = {}]
    /\ thread' = [thread EXCEPT ![t].pc = "runFunc", ![t].held = Released(t)]
    /\ UNCHANGED <<lockRest, cmItems, itemCounter, activeWorkers>>

\* ReportSubProgress (item.go, lines 54-70), called by the check function.
ReportSubProgressLock(t) ==
    /\ thread[t].pc = "runFunc"
    /\ MutexFree(locks.item[t])
    /\ locks' = [locks EXCEPT !.item[t] = {t}]
    /\ thread' = [thread EXCEPT ![t].pc = "ReportSubProgress.store",
                                ![t].held = Append(@, ItemMu(t)),
                                ![t].stack = Append(@, "runFunc")]
    /\ UNCHANGED <<lockRest, items, cmItems, itemCounter, activeWorkers>>

\* The call reports (0, ""): what it stores plays no part in the locking.
ReportSubProgressUnlock(t) ==
    /\ thread[t].pc = "ReportSubProgress.store"
    /\ items' = [items EXCEPT ![t] = ReportSubProgress(@, 0, "")]
    /\ locks' = [locks EXCEPT !.item[t] = {}]
    /\ thread' = [thread EXCEPT ![t].pc = ReturnPc(t), ![t].held = Released(t),
                                ![t].stack = Popped(t)]
    /\ UNCHANGED <<lockRest, cmItems, itemCounter, activeWorkers>>

\* The check function returns; line 85.
RunEndLock(t) ==
    /\ thread[t].pc = "runFunc"
    /\ MutexFree(locks.item[t])
    /\ locks' = [locks EXCEPT !.item[t] = {t}]
    /\ thread' = [thread EXCEPT ![t].pc = "Run.finalise", ![t].held = Append(@, ItemMu(t))]
    /\ UNCHANGED <<lockRest, items, cmItems, itemCounter, activeWorkers>>

\* Lines 86-94, then part_001 lines 69-71: the callback, when it is not nil, which is
\* ui.Draw; after it the slot is released.
RunEndUnlock(t, err) ==
    /\ thread[t].pc = "Run.finalise"
    /\ items' = [items EXCEPT ![t] = RunEnd(@, err)]
    /\ locks' = [locks EXCEPT !.item[t] = {}]
    /\ thread' = [thread EXCEPT ![t].pc = IF hasUiUpdate THEN "Draw" ELSE "release",
                                ![t].held = Released(t),
                                ![t].stack = IF hasUiUpdate THEN <<"release">> ELSE <<>>]
    /\ UNCHANGED <<lockRest, cmItems, itemCounter, activeWorkers>>

\* part_001, line 66: the deferred receive from cm.activeWorkers.
GateRelease(t) ==
    /\ thread[t].pc = "release"
    /\ activeWorkers' = activeWorkers - 1
    /\ thread' = [thread EXCEPT ![t].pc = "done"]
    /\ UNCHANGED <<lockRest, locks, items, cmItems, itemCounter>>

\* ---- RunAllChecks (part_001, lines 50-109)
RunAllChecksCall ==
    /\ thread[Launcher].pc = "idle"
    /\ thread[Adder].pc = "idle"
    /\ thread' = [thread EXCEPT ![Launcher].pc = "GetItems",
                                ![Launcher].stack = <<"RunAllChecks.range">>]
    /\ UNCHANGED <<lockRest, locks, items, cmItems, itemCounter, activeWorkers>>

LaunchItemLock ==
    /\ thread[Launcher].pc = "RunAllChecks.range"
    /\ thread[Launcher].k <= thread[Launcher].n
    /\ MutexFree(locks.item[thread[Launcher].k])
    /\ locks' = [locks EXCEPT !.item[thread[Launcher].k] = {Launcher}]
    /\ thread' = [thread EXCEPT ![Launcher].pc = "RunAllChecks.item",
                                ![Launcher].held = Append(@, ItemMu(thread[Launcher].k))]
    /\ UNCHANGED <<lockRest, items, cmItems, itemCounter, activeWorkers>>

\* Lines 57-60: isPending is read, the item is unlocked, and the loop goes on to the
\* send or to the next item.
LaunchItemUnlock ==
    /\ thread[Launcher].pc = "RunAllChecks.item"
    /\ locks' = [locks EXCEPT !.item[thread[Launcher].k] = {}]
    /\ thread' = [thread EXCEPT
                      ![Launcher].pc = IF IsPending(items[thread[Launcher].k])
                                       THEN "RunAllChecks.send" ELSE "RunAllChecks.range",
                      ![Launcher].held = Released(Launcher),
                      ![Launcher].k = IF IsPending(items[thread[Launcher].k])
                                      THEN @ ELSE @ + 1]
    /\ UNCHANGED <<lockRest, items, cmItems, itemCounter, activeWorkers>>

\* Lines 62-64: the send on cm.activeWorkers and the go statement.
LaunchSend ==
    /\ thread[Launcher].pc = "RunAllChecks.send"
    /\ activeWorkers < Capacity
    /\ activeWorkers' = activeWorkers + 1
    /\ thread' = [thread EXCEPT ![Launcher].pc = "RunAllChecks.range",
                                ![Launcher].k = @ + 1,
                                ![thread[Launcher].k].pc = "Run"]
    /\ UNCHANGED <<lockRest, locks, items, cmItems, itemCounter>>

\* Line 79: the go statement of the periodic goroutine; RunAllChecks returns.
LaunchNotifier ==
    /\ thread[Launcher].pc = "RunAllChecks.range"
    /\ thread[Launcher].k > thread[Launcher].n
    /\ thread' = [thread EXCEPT ![Launcher].pc = "done",
                                ![Notifier].pc = "GetItems",
                                ![Notifier].stack = <<"periodic.range">>]
    /\ UNCHANGED <<lockRest, locks, items, cmItems, itemCounter, activeWorkers>>

\* ---- the periodic goroutine (part_001, lines 79-106)
PeriodicItemLock ==
    /\ thread[Notifier].pc = "periodic.range"
    /\ thread[Notifier].k <= thread[Notifier].n
    /\ MutexFree(locks.item[thread[Notifier].k])
    /\ locks' = [locks EXCEPT !.item[thread[Notifier].k] = {Notifier}]
    /\ thread' = [thread EXCEPT ![Notifier].pc = "periodic.item",
                                ![Notifier].held = Append(@, ItemMu(thread[Notifier].k))]
    /\ UNCHANGED <<lockRest, items, cmItems, itemCounter, activeWorkers>>

\* Lines 85-95: the status is read and the item unlocked; an item that is not terminal
\* ends the loop, the callback is called (when it is not nil) and the goroutine sleeps.
PeriodicItemUnlock ==
    /\ thread[Notifier].pc = "periodic.item"
    /\ locks' = [locks EXCEPT !.item[thread[Notifier].k] = {}]
    /\ thread' = [thread EXCEPT
                      ![Notifier].pc = IF IsTerminal(thread[Notifier].k)
                                       THEN "periodic.range"
                                       ELSE IF hasUiUpdate THEN "Draw" ELSE "periodic.sleep",
                      ![Notifier].held = Released(Notifier),
                      ![Notifier].k = @ + 1,
                      ![Notifier].stack = IF ~IsTerminal(thread[Notifier].k) /\ hasUiUpdate
                                          THEN <<"periodic.sleep">> ELSE <<>>]
    /\ UNCHANGED <<lockRest, items, cmItems, itemCounter, activeWorkers>>

\* Lines 93-102 with allDone true: the callback is called twice, the second call after
\* the first has returned, and the goroutine returns.
PeriodicAllDone ==
    /\ thread[Notifier].pc = "periodic.range"
    /\ thread[Notifier].k > thread[Notifier].n
    /\ thread' = [thread EXCEPT ![Notifier].pc = IF hasUiUpdate THEN "Draw" ELSE "done",
                                ![Notifier].stack = IF hasUiUpdate THEN <<"done", "Draw">>
                                                    ELSE <<>>]
    /\ UNCHANGED <<lockRest, locks, items, cmItems, itemCounter, activeWorkers>>

\* Line 104: the sleep ends and the loop starts again.
PeriodicWake ==
    /\ thread[Notifier].pc = "periodic.sleep"
    /\ thread' = [thread EXCEPT ![Notifier].pc = "GetItems",
                                ![Notifier].stack = <<"periodic.range">>]
    /\ UNCHANGED <<lockRest, locks, items, cmItems, itemCounter, activeWorkers>>

\* ---- the event loop of UIRenderer.Run (render.go, lines 205-249)
\* PollEvent returns a resize, KeyDown (down) or KeyUp.
InputEvent(down) ==
    /\ thread[Input].pc = "idle"
    /\ thread' = [thread EXCEPT ![Input].pc = IF down THEN "KeyDown" ELSE "KeyUpOrResize"]
    /\ UNCHANGED <<lockRest, locks, items, cmItems, itemCounter, activeWorkers>>

\* Lines 218 and 239: ui.mu.Lock().
InputMuLock ==
    /\ thread[Input].pc = "KeyUpOrResize"
    /\ MutexFree(locks.ui)
    /\ locks' = [locks EXCEPT !.ui = {Input}]
    /\ thread' = [thread EXCEPT ![Input].pc = "Input.unlock",
                                ![Input].held = Append(@, UiMu)]
    /\ UNCHANGED <<lockRest, items, cmItems, itemCounter, activeWorkers>>

\* Lines 228-229: ui.mu.Lock(), then GetItems under it.
InputDownMuLock ==
    /\ thread[Input].pc = "KeyDown"
    /\ MutexFree(locks.ui)
    /\ locks' = [locks EXCEPT !.ui = {Input}]
    /\ thread' = [thread EXCEPT ![Input].pc = "GetItems",
                                ![Input].held = Append(@, UiMu),
                                ![Input].stack = <<"Input.unlock">>]
    /\ UNCHANGED <<lockRest, items, cmItems, itemCounter, activeWorkers>>

\* ui.mu.Unlock(), then ui.Draw(), then the loop waits for the next event.
InputMuUnlock ==
    /\ thread[Input].pc = "Input.unlock"
    /\ locks' = [locks EXCEPT !.ui = {}]
    /\ thread' = [thread EXCEPT ![Input].pc = "Draw", ![Input].held = Released(Input),
                                ![Input].stack = <<"idle">>]
    /\ UNCHANGED <<lockRest, items, cmItems, itemCounter, activeWorkers>>

\* -------------------------------------------------------- specifications
\* No call of CalculateOverallProgress has been made.
NoProgress == [pc |-> "idle", k |-> 0, completedCount |-> 0, result |-> <<0, 0, 0>>,
               seen |-> {}]

Init == InitSched /\ InitUI /\ alive = TRUE /\ progress = NoProgress
        /\ snap = NoSnap
        /\ workerUpdates = [r \in RunAllIds |-> [i \in ItemIds |-> 0]]
        /\ InitLocks

\* The steps of the goroutines RunAllChecks runs in and starts: launchers and workers.
GoroutineStep ==
    \/ \E r \in RunAllIds : Examine(r)
    \/ \E r \in RunAllIds : Acquire(r)
    \/ \E r \in RunAllIds : StartNotifier(r)
    \/ \E r \in RunAllIds, i \in ItemIds : WorkerRunBegin(r, i)
    \/ \E r \in RunAllIds, i \in ItemIds, err \in Errors \cup {NoError} : WorkerRunEnd(r, i, err)
    \/ \E r \in RunAllIds, i \in ItemIds : WorkerUiUpdate(r, i)
    \/ \E r \in RunAllIds, i \in ItemIds : WorkerRelease(r, i)

\* The calls of RunAllChecks, and what they start.
LaunchStep ==
    \/ \E r \in RunAllIds : RunAllChecks(r)
    \/ GoroutineStep

\* The periodic goroutines.
NotifierStep ==
    \/ \E r \in RunAllIds : NotifierGetItems(r)
    \/ \E r \in RunAllIds : NotifierScan(r)
    \/ \E r \in RunAllIds : NotifierUiUpdate(r)
    \/ \E r \in RunAllIds : NotifierFinal(r)

Next ==
    \/ \E name \in Names : AddCheck(name)
    \/ LaunchStep

Spec == Init /\ [][Next]_vars

\* The launchers, the workers and the periodic goroutines.
NextNotify ==
    \/ Next
    \/ NotifierStep

SpecNotify == Init /\ [][NextNotify]_vars

\* Spec under the fairness of the Go scheduler: while some launcher or worker can take
\* a step, one of them does (every check function returns, every callback returns, a
\* runnable goroutine is run).  AddCheck and RunAllChecks are the caller's to make: no
\* fairness.
Fairness == WF_vars(GoroutineStep)

FairSpec == Spec /\ Fairness

\* One item, its Runs under several RunAllChecks, and the calls of its reporter.
AddCheckReport(name) ==
    /\ Len(items) < MaxReportItems
    /\ AddCheck(name)

NextReport ==
    \/ \E name \in Names : AddCheckReport(name)
    \/ LaunchStep
    \/ \E i \in ItemIds, call \in ReportCalls : Report(i, call)

SpecReport == Init /\ [][NextReport]_vars

\* The launchers and workers, with check functions that may panic.
NextFault ==
    \/ \E name \in Names : AddCheck(name)
    \/ LaunchStep
    \/ \E r \in RunAllIds, i \in ItemIds : WorkerPanic(r, i)
    \/ \E r \in RunAllIds, i \in ItemIds : WorkerPanicRelease(r, i)
    \/ \E r \in RunAllIds, i \in ItemIds : ProcessExit(r, i)

SpecFault == Init /\ [][NextFault]_vars

\* The manager and a caller of CalculateOverallProgress.
NextProgress ==
    \/ \E name \in Names : AddCheck(name)
    \/ LaunchStep
    \/ ProgressCall
    \/ ProgressScan

SpecProgress == Init /\ [][NextProgress]_vars

\* The manager and a caller that takes slices from GetItems and writes to them.
NextSnapshot ==
    \/ \E name \in Names : AddCheck(name)
    \/ LaunchStep
    \/ SnapTake
    \/ \E k \in ItemIds : SnapReplace(k)
    \/ \E k \in ItemIds : SnapRemove(k)

SpecSnapshot == Init /\ [][NextSnapshot]_vars

\* The view: Run, its event loop, Draw through the callback, Stop, and AddCheck.
NextUI ==
    \/ \E name \in Names : AddCheck(name)
    \/ RunDrawLock
    \/ RunDrawShow
    \/ RunFini
    \/ Stop
    \/ EvSelect
    \/ EvNone
    \/ EvQuitKey
    \/ \E h \in Heights : EvResize(h)
    \/ EvKeyDown
    \/ EvKeyUp
    \/ EvDrawLock
    \/ EvDrawShow
    \/ CbDrawLock
    \/ CbDrawShow

SpecUI == Init /\ [][NextUI]_vars

\* The program the README describes: AddCheck, go RunAllChecks(), ui.Run() and the keys
\* of the user, up to the return of Run.
NextApp ==
    \/ \E name \in Names : AddCheck(name)
    \/ LaunchStep
    \/ RunDrawLock
    \/ RunDrawShow
    \/ EvSelect
    \/ EvNone
    \/ EvQuitKey
    \/ RunFini

SpecApp == Init /\ [][NextApp]_vars

\* The program at the level of its locks: registration, one RunAllChecks, its workers and
\* periodic goroutine, the redraw callback and the input handler.
NextLocks ==
    \/ \E t \in Threads : GetItemsRLock(t)
    \/ \E t \in Threads : GetItemsReturn(t)
    \/ AddCheckCall
    \/ AddCheckLock
    \/ \E name \in Names : AddCheckUnlock(name)
    \/ \E t \in Threads : CalculateOverallProgressRLock(t)
    \/ \E t \in Threads : CalculateOverallProgressItemLock(t)
    \/ \E t \in Threads : CalculateOverallProgressItemUnlock(t)
    \/ \E t \in Threads : CalculateOverallProgressReturn(t)
    \/ \E t \in Threads : DrawMuLock(t)
    \/ \E t \in Threads : DrawItemLock(t)
    \/ \E t \in Threads : DrawItemUnlock(t)
    \/ \E t \in Threads : DrawProgress(t)
    \/ \E t \in Threads : DrawMuUnlock(t)
    \/ \E t \in Workers : RunLock(t)
    \/ \E t \in Workers : RunBeginUnlock(t)
    \/ \E t \in Workers : ReportSubProgressLock(t)
    \/ \E t \in Workers : ReportSubProgressUnlock(t)
    \/ \E t \in Workers : RunEndLock(t)
    \/ \E t \in Workers, err \in {NoError, "e1"} : RunEndUnlock(t, err)
    \/ \E t \in Workers : GateRelease(t)
    \/ RunAllChecksCall
    \/ LaunchItemLock
    \/ LaunchItemUnlock
    \/ LaunchSend
    \/ LaunchNotifier
    \/ PeriodicItemLock
    \/ PeriodicItemUnlock
    \/ PeriodicAllDone
    \/ PeriodicWake
    \/ \E down \in BOOLEAN : InputEvent(down)
    \/ InputMuLock
    \/ InputDownMuLock
    \/ InputMuUnlock

SpecLocks == Init /\ [][NextLocks]_vars

\* ----------------------------------------------------------------- claims
InProgressItems == {i \in 1..Len(items) : items[i].Status = StatusInProgress}

\* The status changes the life-cycle allows.
StatusSteps ==
    {<<StatusPending, StatusInProgress>>, <<StatusInProgress, StatusCompleted>>,
     <<StatusInProgress, StatusFailed>>}

\* C1: in every step, under any interleaving of AddCheck, RunAllChecks invocations and
\* workers, the status of each item either stays as it is or changes Pending->InProgress,
\* InProgress->Completed or InProgress->Failed; a Completed or Failed item never changes
\* status again.
C1_StatusMonotone ==
    [][\A i \in 1..Len(items) :
           \/ items'[i].Status = items[i].Status
           \/ <<items[i].Status, items'[i].Status>> \in StatusSteps]_vars

\* C2: at every moment the number of items whose status is InProgress is at most
\* L = max(1, maxConcurrentChecks).
C2_InProgressAtMostLimit ==
    LET L == IF maxConcurrentChecks >= 1 THEN maxConcurrentChecks ELSE 1
    IN  Cardinality(InProgressItems) <= L

\* C2 witness: the limit is reached (L items are InProgress, every slot is taken) while a
\* launcher waits for a slot for a further Pending item.
C2_Witness ==
    /\ Cardinality(InProgressItems) = Capacity
    /\ activeWorkers = Capacity
    /\ \E r \in RunAllIds :
          /\ runAll[r].pc = "acquire"
          /\ items[runAll[r].itemsToRun[runAll[r].idx]].Status = StatusPending

\* C3: under FairSpec (every check function returns, every callback returns), every item
\* that was Pending when some RunAllChecks was called eventually is Completed or Failed,
\* whatever the other items return, and a launcher waiting for a slot eventually gets one.
C3_PendingEventuallyTerminal ==
    /\ \A i \in ItemIds :
          (\E r \in RunAllIds : i \in runAll[r].pendingAtCall)
              ~> (i <= Len(items) /\ items[i].Status \in Terminal)
    /\ \A r \in RunAllIds :
          (runAll[r].pc = "acquire") ~> (runAll[r].pc # "acquire")

\* C3 witness: with one slot, an invocation found two items Pending; the first has
\* Failed and the second, which had to wait for the slot, has Completed.
C3_Witness ==
    /\ Capacity = 1
    /\ Len(items) = 2
    /\ runAll[1].pendingAtCall = {1, 2}
    /\ items[1].Status = StatusFailed
    /\ items[2].Status = StatusCompleted
    /\ worker[1][2] = "done"

\* C4: a panic of a check function is contained: when the goroutine of the faulting item
\* has finished unwinding, the item is Failed, and the process is never terminated.
C4_FaultContained ==
    /\ alive
    /\ \A r \in RunAllIds, i \in 1..Len(items) :
          worker[r][i] = "crashing" => items[i].Status = StatusFailed

\* C5: signalling quit again after it has been signalled (Stop after a quit key, Stop
\* twice, a quit key after Stop) never faults: the process is not terminated by a panic.
C5_QuitAgainNoFault ==
    quit = "closed" => alive

\* C6: an invocation of RunAllChecks starts no goroutine for an item that was not Pending
\* when the invocation was called, so it neither executes it nor changes its fields.
C6_OnlyPendingLaunched ==
    \A r \in RunAllIds, i \in 1..Len(items) :
        (runAll[r].pc # "idle" /\ i \notin runAll[r].pendingAtCall) => worker[r][i] = "none"

\* C6 witness: invocation 2 was called when item 1 was no longer Pending, and its loop has
\* passed item 1 (and has finished) without starting a goroutine for it.
C6_Witness ==
    /\ runAll[2].pc = "returned"
    /\ Len(runAll[2].itemsToRun) >= 1
    /\ 1 \notin runAll[2].pendingAtCall
    /\ worker[2][1] = "none"
    /\ worker[1][1] = "running"

\* C7: a ReportSubProgress call made when the item's status is not InProgress or its
\* reporterActive flag is off leaves every field of every item as it was.
C7_LateReportNoEffect ==
    [][\A i \in 1..Len(items), call \in ReportCalls :
           (/\ Report(i, call)
            /\ (items[i].Status # StatusInProgress \/ ~items[i].reporterActive))
           => items' = items]_vars

\* C7 witness: a call has just arrived at an item that is Completed or Failed and that an
\* earlier call had updated, and was dropped.
C7_Witness ==
    /\ dropped # 0
    /\ items[dropped].Status \in Terminal
    /\ items[dropped].SubMessage # ""

\* C8: every item has 0 <= SubProgress <= 100; while the item is InProgress a negative
\* percentage is stored as 0 and one above 100 as 100.
C8_SubProgressInRange ==
    \A i \in 1..Len(items) :
        /\ 0 <= items[i].SubProgress
        /\ items[i].SubProgress <= 100
        /\ items[i].Status = StatusInProgress =>
              /\ items[i].SubMessage = "low" => items[i].SubProgress = 0
              /\ items[i].SubMessage = "mid" => items[i].SubProgress = 42
              /\ items[i].SubMessage = "high" => items[i].SubProgress = 100

\* C8 witness: the call ReportSubProgress(-10, "low") has been stored.
C8_Witness ==
    \E i \in 1..Len(items) :
        /\ items[i].Status = StatusInProgress
        /\ items[i].SubMessage = "low"
        /\ items[i].SubProgress = 0

\* C9: whenever an item is Completed its SubProgress is 100 and its Error is nil.
C9_CompletedIsCleanAndFull ==
    \A i \in 1..Len(items) :
        items[i].Status = StatusCompleted =>
            (items[i].SubProgress = 100 /\ items[i].Error = NoError)

\* C10: an item's Error is not nil if and only if its status is Failed.
C10_ErrorIffFailed ==
    \A i \in 1..Len(items) :
        (items[i].Error # NoError) <=> (items[i].Status = StatusFailed)

\* C11: a call of CalculateOverallProgress returns (done, total, percent) with total the
\* number of items, done the number of them that are Completed or Failed (at some moment
\* of the call) and percent = floor(done * 100 / total), or (0, 0, 0) with no item; so
\* it returns 100 percent only if there are items and at some moment of the call every
\* one of them is Completed or Failed.
C11_OverallProgressCounts ==
    [][(progress'.pc = "returned" /\ progress' # progress) =>
          /\ progress'.result[2] = Len(items')
          /\ progress'.result[1] \in progress'.seen
          /\ progress'.result[3] = IF Len(items') = 0 THEN 0
                                   ELSE (progress'.result[1] * 100) \div Len(items')
          /\ progress'.result[3] = 100
                 => (Len(items') > 0 /\ Len(items') \in progress'.seen)]_vars

\* C12: when Run has returned and no item has status Failed, every item has status
\* Completed (all checks have passed).
C12_NoFailedMeansAllPassed ==
    (uiRun = "returned" /\ \A i \in 1..Len(items) : items[i].Status # StatusFailed)
        => \A i \in 1..Len(items) : items[i].Status = StatusCompleted

\* The items for which invocation r has started a goroutine (each after its send on
\* activeWorkers).
Launched(r) == {i \in 1..Len(items) : worker[r][i] # "none"}

\* C13: when an invocation of RunAllChecks has returned, every item of its snapshot that
\* it found Pending has been admitted by the gate and launched (an item it did not launch
\* is not Pending), and at most max(1, maxConcurrentChecks) of the items it launched are
\* not yet Completed or Failed; it does not wait for them.
C13_ReturnsWhenAllLaunched ==
    \A r \in RunAllIds :
        runAll[r].pc = "returned" =>
            /\ \A i \in 1..Len(runAll[r].itemsToRun) :
                   i \notin Launched(r) => items[i].Status # StatusPending
            /\ Cardinality({i \in Launched(r) : items[i].Status \notin Terminal}) <= Capacity

\* C13 witness: an invocation has returned after launching two items through a gate of
\* one slot; the second one it launched is still InProgress.
C13_Witness ==
    \E r \in RunAllIds :
        /\ runAll[r].pc = "returned"
        /\ Capacity = 1
        /\ Launched(r) = {1, 2}
        /\ worker[r][2] = "running"
        /\ items[2].Status = StatusInProgress

\* C14: an invocation of RunAllChecks starts no goroutine for an item registered after
\* it was called, even while its loop is still running, and an item registered after
\* every invocation made so far stays Pending.
C14_SnapshotAtCall ==
    \A i \in 1..Len(items) :
        /\ \A r \in RunAllIds :
               (runAll[r].pc # "idle" /\ i > Len(runAll[r].itemsToRun))
                   => worker[r][i] = "none"
        /\ (\A r \in RunAllIds : runAll[r].pc = "idle" \/ i > Len(runAll[r].itemsToRun))
               => items[i].Status = StatusPending

\* C14 witness: item 2 was registered after invocation 1 was called (and after
\* invocation 2 was); invocation 1 has launched item 1, whose worker is done, and has
\* returned, and item 2 is Pending.
C14_Witness ==
    /\ Len(items) = 2
    /\ Len(runAll[1].itemsToRun) = 1
    /\ runAll[1].pc = "returned"
    /\ runAll[2].pc = "returned"
    /\ worker[1][1] = "done"
    /\ worker[1][2] = "none"
    /\ items[2].Status = StatusPending

\* C15: after any number of AddCheck calls, interleaved with anything else, the list has
\* one item per call and the item at position i has ID i; and in every step the list
\* only grows at its end: each position keeps the item (ID and Name) it had.
C15_IdsFollowRegistration ==
    /\ [](/\ Len(items) = itemCounter
          /\ \A i \in 1..Len(items) : items[i].ID = i)
    /\ [][/\ Len(items') >= Len(items)
          /\ \A i \in 1..Len(items) :
                 items'[i].ID = items[i].ID /\ items'[i].Name = items[i].Name]_vars

\* C15 witness: two AddCheck calls have been made, the second after invocation 1 was
\* called; the items have IDs 1 and 2 in that order and the first has Completed.
C15_Witness ==
    /\ Len(items) = 2
    /\ items[1].ID = 1
    /\ items[2].ID = 2
    /\ Len(runAll[1].itemsToRun) = 1
    /\ items[1].Status = StatusCompleted

\* C16: GetItems returns a copy of the list.  A step of the caller that replaces or
\* removes an entry of the slice it got leaves cm.items as it was; a step that changes
\* cm.items (an AddCheck) leaves the caller's slice as it was; and the elements are the
\* pointers of cm.items: a slice the caller has not written to holds, position by
\* position, the same items as the list has now, so that a status read through it is
\* the item's status.
C16_SnapshotIsACopy ==
    /\ [][(snap.held /\ snap'.held /\ snap'.elems # snap.elems /\ snap'.touched)
             => cmItems' = cmItems]_vars
    /\ [][cmItems' # cmItems => snap' = snap]_vars
    /\ []((snap.held /\ ~snap.touched) =>
             /\ Len(snap.elems) <= Len(cmItems)
             /\ \A k \in 1..Len(snap.elems) : snap.elems[k] = cmItems[k])

\* C16 witness: the caller took a slice of two items and has set its first entry to nil;
\* the list still holds both items, and the second item, which the slice still holds,
\* has since become Completed.
C16_Witness ==
    /\ snap.held
    /\ snap.elems = <<0, 2>>
    /\ cmItems = <<1, 2>>
    /\ items[snap.elems[2]].Status = StatusCompleted

\* C17: with a callback supplied, the goroutine started for an item calls cm.uiUpdate
\* exactly once: not before its check.Run() has returned (0 calls until then), once
\* before it releases its slot (1 call from then on); without a callback it makes no
\* call.  At the call its Run has made the item Completed or Failed (the item is so,
\* unless a goroutine of another invocation is running it again), and its slot is still
\* taken.
C17_OneUpdatePerExecution ==
    /\ [](\A r \in RunAllIds, i \in ItemIds :
             workerUpdates[r][i] =
                 IF hasUiUpdate /\ worker[r][i] \in {"release", "done"} THEN 1 ELSE 0)
    /\ [][\A r \in RunAllIds, i \in ItemIds :
             workerUpdates'[r][i] # workerUpdates[r][i] =>
                 /\ worker[r][i] \notin {"none", "start", "running", "done"}
                 /\ \/ items[i].Status \in Terminal
                    \/ \E q \in RunAllIds \ {r} : worker[q][i] = "running"
                 /\ activeWorkers >= 1
                 /\ activeWorkers' = activeWorkers]_vars

\* C17 witness: with a callback, a worker has made its one call for an item that Failed
\* and has not yet released its slot.
C17_Witness ==
    \E r \in RunAllIds, i \in 1..Len(items) :
        /\ hasUiUpdate
        /\ worker[r][i] = "release"
        /\ workerUpdates[r][i] = 1
        /\ items[i].Status = StatusFailed
        /\ activeWorkers >= 1

\* C18: the final call of cm.uiUpdate by a periodic goroutine begins after the last item
\* has become Completed or Failed, so it sees every item terminal: at the step of the
\* final call, each item the goroutine has scanned (a fortiori each item there is) is
\* Completed or Failed.
C18_FinalUpdateSeesAllTerminal ==
    [][\A r \in RunAllIds :
           (hasUiUpdate /\ NotifierFinal(r)) =>
               \A i \in 1..notifier[r].n : items[i].Status \in Terminal]_vars

\* C19: from the call of RunAllChecks on, and as long as an item is Pending or InProgress,
\* a periodic goroutine is running (started, not returned).  In particular: while an
\* invocation waits at the full gate for a slot for an item it found Pending, and items
\* are InProgress, some periodic goroutine is running.
C19_NotifierActiveWhileWork ==
    \A r \in RunAllIds :
        (/\ runAll[r].pc = "acquire"
         /\ activeWorkers = Capacity
         /\ \E i \in 1..Len(items) : items[i].Status = StatusInProgress)
        => \E q \in RunAllIds : notifier[q].pc \notin {"none", "stopped"}

\* C20: scrollTop is never negative; it grows only by one, and only from a value below
\* numItems - displayableRows (Down); and when a Draw of a screen of at least 3 rows has
\* completed, scrollTop <= max(0, numItems - displayableRows), with
\* displayableRows = height - 1, also after the screen has grown so that every item fits.
C20_ScrollTopInRange ==
    /\ [](scrollTop >= 0)
    /\ [][scrollTop' > scrollTop =>
             /\ scrollTop' = scrollTop + 1
             /\ scrollTop < Len(cmItems) - (height - 1)]_vars
    /\ [][(uiMu # "free" /\ uiMu' = "free" /\ height' >= 3) =>
             scrollTop' <= (IF Len(cmItems') - (height' - 1) > 0
                            THEN Len(cmItems') - (height' - 1) ELSE 0)]_vars

\* The invocations whose goroutine for item i has entered check.Run().
Executions(i) == {r \in RunAllIds : worker[r][i] \notin {"none", "start"}}

\* C21: the check function of each item is executed at most once, however many times
\* RunAllChecks is invoked: at most one goroutine ever enters Run for an item.
C21_ExecutedAtMostOnce ==
    \A i \in 1..Len(items) : Cardinality(Executions(i)) <= 1

\* The goroutines that have been started (each after a send on activeWorkers) and have
\* not yet made their deferred receive from it.
SlotHolders ==
    {w \in RunAllIds \X ItemIds :
        worker[w[1]][w[2]] \in {"start", "running", "notify", "release", "panicking"}}

\* C22: the number of slots taken equals the number of goroutines started by a launcher
\* that have not yet finished; it never exceeds max(1, maxConcurrentChecks); a goroutine
\* gives its slot back once on every way out, the panic of its check function included;
\* and when every started goroutine has finished no slot is taken.
C22_SlotsMatchWorkers ==
    /\ activeWorkers = Cardinality(SlotHolders)
    /\ activeWorkers <= (IF maxConcurrentChecks >= 1 THEN maxConcurrentChecks ELSE 1)
    /\ activeWorkers >= 0

\* C22 witness: a goroutine whose check function panicked has given its slot back, one
\* that ran to its end has too, and no slot is taken.
C22_Witness ==
    /\ \E r \in RunAllIds, i \in ItemIds : worker[r][i] = "crashing"
    /\ \E r \in RunAllIds, i \in ItemIds : worker[r][i] = "done"
    /\ SlotHolders = {}
    /\ activeWorkers = 0

\* The threads of control of the view that are inside Draw.
Drawing ==
    {p \in {"run", "ev", "cb"} :
        \/ p = "run" /\ uiRun = "drawing"
        \/ p = "ev" /\ evLoop = "drawing"
        \/ p = "cb" /\ cbDraw = "drawing"}

\* C23: at most one thread is inside a Draw at a time, and it is the holder of ui.mu;
\* the critical sections of the Down, Up and resize handlers do not run while a Draw is
\* under way: from the start of a Draw to its Show, scrollTop and the size of the screen
\* stay as the Draw found them.
C23_DrawsAreExclusive ==
    /\ [](/\ Cardinality(Drawing) <= 1
          /\ \A p \in {"run", "ev", "cb"} : p \in Drawing <=> uiMu = p)
    /\ [][(uiMu # "free" /\ uiMu' = uiMu) =>
             (scrollTop' = scrollTop /\ height' = height)]_vars

\* C23 witness: a Draw called through the manager's callback is under way while the
\* event loop, after a Down key that moved scrollTop, has its own Draw to make.
C23_Witness ==
    /\ cbDraw = "drawing"
    /\ uiMu = "cb"
    /\ evLoop = "draw"
    /\ scrollTop = 1

\* C24: every access to the screen is made by the holder of ui.mu, the release of the
\* screen included: screen.Fini() is not called while a Draw is under way.
C24_FiniNotDuringDraw ==
    [][(screen # "fini" /\ screen' = "fini") => Drawing = {}]_vars

\* C28: once Run has released the screen (screen.Fini()), no Draw is begun on it, also
\* when the manager's callback fires afterwards.
C28_NoDrawAfterFini ==
    [][screen = "fini" => ~(uiMu = "free" /\ uiMu' # "free")]_vars

\* The (SubProgress, SubMessage) pairs the calls of ReportCalls store.
ReportedPairs == {<<Clamp(call[1]), call[2]>> : call \in ReportCalls}

\* C26: ReportSubProgress calls made in any order by the goroutines of a check function
\* are applied one at a time: while the item is InProgress its (SubProgress, SubMessage)
\* is the pair of the reset, (0, ""), or the clamped percentage and the message of one
\* call; and a check function that returns nil makes the item Completed.
C26_ReportsAreAtomic ==
    /\ [](\A i \in 1..Len(items) :
             items[i].Status = StatusInProgress =>
                 <<items[i].SubProgress, items[i].SubMessage>>
                     \in ReportedPairs \cup {<<0, "">>})
    /\ [][\A r \in RunAllIds, i \in ItemIds :
             WorkerRunEnd(r, i, NoError) => items'[i].Status = StatusCompleted]_vars

\* C26 witness: the item has Completed after its reporter stored the call (42, "mid").
C26_Witness ==
    \E i \in 1..Len(items) :
        /\ items[i].Status = StatusCompleted
        /\ items[i].SubMessage = "mid"
        /\ items[i].SubProgress = 100

\* C27: the step in which Run finalises an item leaves its ID, Name and SubMessage as
\* they were, and on failure its SubProgress too (it is set to 100 on success only); it
\* changes no other item.
C27_FinaliseKeepsReport ==
    [][\A r \in RunAllIds, i \in ItemIds, err \in Errors \cup {NoError} :
           WorkerRunEnd(r, i, err) =>
               /\ items'[i].ID = items[i].ID
               /\ items'[i].Name = items[i].Name
               /\ items'[i].SubMessage = items[i].SubMessage
               /\ err # NoError => items'[i].SubProgress = items[i].SubProgress
               /\ err = NoError => items'[i].SubProgress = 100
               /\ \A j \in 1..Len(items) : j # i => items'[j] = items[j]]_vars

\* C27 witness: the item has Failed and still shows the last report, (42, "mid").
C27_Witness ==
    \E i \in 1..Len(items) :
        /\ items[i].Status = StatusFailed
        /\ items[i].SubProgress = 42
        /\ items[i].SubMessage = "mid"

\* The item locks among the locks goroutine t holds.
ItemLocksHeld(t) ==
    {thread[t].held[j] : j \in {j \in 1..Len(thread[t].held) : thread[t].held[j][1] = "item.mu"}}

\* The place of a lock in the order View lock, Scheduler list lock, Task lock.
LockRank(l) == IF l = UiMu THEN 1 ELSE IF l = CmMu THEN 2 ELSE 3

\* The elements of a sequence.
Range(seq) == {seq[j] : j \in 1..Len(seq)}

\* Goroutine t is inside a check function, its reporter excluded.
InCheckFunc(t) == thread[t].pc = "runFunc"

\* Goroutine t is inside the callback cm.uiUpdate.
InCallback(t) ==
    /\ t \in Workers \cup {Notifier}
    /\ \/ thread[t].pc \in {"Draw", "Draw.range", "Draw.item", "Draw.return"}
       \/ Range(thread[t].stack) \cap {"Draw.range", "Draw.return"} # {}

\* Goroutine t is at a lock operation, or at the send on the gate, that cannot return
\* in this state.
Blocked(t) ==
    \/ thread[t].pc \in {"Draw", "KeyDown", "KeyUpOrResize"} /\ ~MutexFree(locks.ui)
    \/ thread[t].pc \in {"GetItems", "CalculateOverallProgress"} /\ ~CanRLock
    \/ thread[t].pc = "AddCheck.lock" /\ ~CanLock
    \/ thread[t].pc \in {"Run", "runFunc"} /\ ~MutexFree(locks.item[t])
    \/ /\ thread[t].pc \in {"Draw.range", "RunAllChecks.range", "periodic.range"}
       /\ thread[t].k <= thread[t].n
       /\ ~MutexFree(locks.item[thread[t].k])
    \/ /\ thread[t].pc = "CalculateOverallProgress.range"
       /\ ~MutexFree(locks.item[cmItems[thread[t].k]])
    \/ thread[t].pc = "RunAllChecks.send" /\ activeWorkers >= Capacity

\* The goroutines that have started and have something left to do without waiting for
\* an event or for the end of a sleep.
Busy == {t \in Threads : thread[t].pc \notin {"idle", "done", "periodic.sleep"}}

\* C25: no goroutine holds the locks of two items; no item lock is held by a goroutine
\* that is in a check function or that calls the callback; a goroutine takes its locks
\* in the order ui.mu, cm.mu, item.mu; and whenever some goroutines have work left, one
\* of them is not blocked on a lock or on the send on cm.activeWorkers.
C25_LockOrderNoDeadlock ==
    /\ \A t \in Threads : Cardinality(ItemLocksHeld(t)) <= 1
    /\ \A t \in Threads : InCheckFunc(t) => thread[t].held = <<>>
    /\ \A t \in Threads :
           InCallback(t) => thread[t].held = <<>> \/ thread[t].held[1] = UiMu
    /\ \A t \in Threads : \A j \in 1..Len(thread[t].held) - 1 :
           LockRank(thread[t].held[j]) < LockRank(thread[t].held[j + 1])
    /\ Busy # {} => \E t \in Busy : ~Blocked(t)

\* C25 witness: a Draw holds ui.mu, cm.mu and an item's lock, in this order, while the
\* launcher waits at the full gate and a check function runs.
C25_Witness ==
    /\ \E t \in Threads : thread[t].held = <<UiMu, CmMu, ItemMu(1)>>
    /\ thread[Launcher].pc = "RunAllChecks.send"
    /\ Blocked(Launcher)
    /\ \E w \in Workers : thread[w].pc = "runFunc"

====
